---- MODULE Spec2Model ----
(***************************************************************************)
(* Model of app.py, the household energy calculator.                       *)
(*                                                                         *)
(* Energy values are decimal numbers with at most two fractional digits;   *)
(* they are held as integers counting hundredths of a kWh (1.5 kWh = 150). *)
(* The weather factors 0.1 .. 1.3 are held as tenths (1 .. 13), so that    *)
(* base * factor is (base * tenths) \div 10, exact for every base that is  *)
(* a multiple of 0.1 kWh, as all table values are.  Binary floating-point  *)
(* rounding of the last digit is not represented.                          *)
(***************************************************************************)
EXTENDS Integers, Sequences, FiniteSets, TLC

VARIABLES
    pc,              \* position of the run / of the function call
    name, city, area,        \* st.text_input values (sequences of characters)
    flat_tenement, bhk,      \* st.selectbox values / function arguments
    i,               \* index of the day loop (0-based, as enumerate)
    temperature,     \* st.slider value of the current day / function argument
    weather_desc,    \* weather description of the current day
    daily_energy,    \* result of calculate_daily_energy in the day loop
    weekly_data,     \* list of per-day rows
    summary,         \* metrics of the weekly summary section
    fn,              \* function applied by a direct call
    base_fan_ac,     \* argument of calculate_weather_adjustment
    ret,             \* value returned by a direct call
    base_consumption,\* the table object built by calculate_base_energy
    probe            \* a remembered earlier call (arguments and result)

vars == <<pc, name, city, area, flat_tenement, bhk, i, temperature,
          weather_desc, daily_energy, weekly_data, summary, fn, base_fan_ac,
          ret, base_consumption, probe>>

mainVars == <<name, city, area, i, weather_desc, daily_energy, weekly_data,
              summary>>

callVars == <<fn, base_fan_ac, ret, base_consumption, probe>>

----------------------------------------------------------------------------
(* Bounds *)

\* direct calls take temperatures in -MaxCold .. MaxHot
MaxCold == 50

MaxHot == 100

\* direct calls of calculate_weather_adjustment take bases 0.0, 0.1, ...,
\* MaxBaseTenths / 10 kWh
MaxBaseTenths == 90

\* number of slider positions tried per day in a run of main
NumTemps == 3

\* number of temperatures tried in interleaved call sequences
NumCallTemps == 3

\* longest list of rows given to the weekly summary on its own
MaxRecords == 7

\* number of temperatures tried in those lists
NumWeekTemps == 2

----------------------------------------------------------------------------
(* Python values *)

\* None
None == [is_none |-> TRUE]

\* {}
EmptyDict == [k \in {} |-> 0]

\* bool(v) of a dict or None
Truthy(v) == v # None /\ DOMAIN v # {}

\* bool(s) of a string or a list
NonEmpty(s) == Len(s) > 0

\* dict.get(key, default)
Get(d, key, default) == IF key \in DOMAIN d THEN d[key] ELSE default

RECURSIVE SumOver(_, _)
SumOver(d, keys) ==
    IF keys = {} THEN 0
    ELSE LET k == CHOOSE x \in keys : TRUE
         IN  d[k] + SumOver(d, keys \ {k})

\* sum(d.values())
SumValues(d) == SumOver(d, DOMAIN d)

RECURSIVE lstrip(_)
lstrip(s) == IF s # <<>> /\ Head(s) = " " THEN lstrip(Tail(s)) ELSE s

RECURSIVE rstrip(_)
rstrip(s) ==
    IF s # <<>> /\ s[Len(s)] = " " THEN rstrip(SubSeq(s, 1, Len(s) - 1)) ELSE s

\* str.strip()
strip(s) == rstrip(lstrip(s))

\* base * factor, the factor given in tenths
TimesTenths(base, tenths) == (base * tenths) \div 10

----------------------------------------------------------------------------
(* calculate_base_energy *)

Profile(l, f, a, w, r) ==
    [lighting |-> l, fan_ac |-> f, appliances |-> a, water_heater |-> w,
     refrigerator |-> r]

BaseConsumptionBad ==
    [flat |-> ("1BHK" :> Profile(150, 400, 350, 200, 180)) @@
              ("2BHK" :> Profile(220, 600, 450, 250, 200)) @@
              ("3BHK" :> Profile(300, 800, 600, 300, 220)),
     tenement |-> ("1BHK" :> Profile(180, 500, 300, 150, 160)) @@
                  ("2BHK" :> Profile(250, 700, 400, 200, 180)) @@
                  ("3BHK" :> Profile(350, 900, 550, 250, 220))]

\* the dict literal base_consumption
BaseConsumption ==
    [flat |-> ("1BHK" :> Profile(150, 400, 350, 200, 180)) @@
              ("2BHK" :> Profile(220, 600, 450, 250, 200)) @@
              ("3BHK" :> Profile(300, 800, 600, 300, 220)),
     tenement |-> ("1BHK" :> Profile(180, 500, 300, 150, 160)) @@
                  ("2BHK" :> Profile(250, 700, 400, 200, 180)) @@
                  ("3BHK" :> Profile(350, 900, 550, 250, 200))]

calculate_base_energy_default(ft, b) ==
    Get(Get(BaseConsumption, ft, BaseConsumption.flat), b,
        BaseConsumption.flat["1BHK"])

calculate_base_energy(ft, b) ==
    Get(Get(BaseConsumption, ft, EmptyDict), b, EmptyDict)

----------------------------------------------------------------------------
(* calculate_weather_adjustment *)

calculate_weather_adjustment_le(t, base) ==
    IF t <= 18 THEN TimesTenths(base, 1)
    ELSE IF t <= 22 THEN TimesTenths(base, 3)
    ELSE IF t <= 26 THEN TimesTenths(base, 6)
    ELSE IF t <= 30 THEN TimesTenths(base, 8)
    ELSE IF t <= 35 THEN TimesTenths(base, 10)
    ELSE TimesTenths(base, 13)

\* the factors of the comfortable and the warm band are exchanged
calculate_weather_adjustment_swapped(t, base) ==
    IF t < 18 THEN TimesTenths(base, 1)
    ELSE IF t < 22 THEN TimesTenths(base, 3)
    ELSE IF t < 26 THEN TimesTenths(base, 8)
    ELSE IF t < 30 THEN TimesTenths(base, 6)
    ELSE IF t < 35 THEN TimesTenths(base, 10)
    ELSE TimesTenths(base, 13)

\* below 18 degrees the usage is reduced by the base value, not to a tenth
calculate_weather_adjustment_reduced(t, base) ==
    IF t < 18 THEN TimesTenths(base, 1) - base
    ELSE IF t < 22 THEN TimesTenths(base, 3)
    ELSE IF t < 26 THEN TimesTenths(base, 6)
    ELSE IF t < 30 THEN TimesTenths(base, 8)
    ELSE IF t < 35 THEN TimesTenths(base, 10)
    ELSE TimesTenths(base, 13)

\* the hot band ends at 34 degrees
calculate_weather_adjustment_hot34(t, base) ==
    IF t < 18 THEN TimesTenths(base, 1)
    ELSE IF t < 22 THEN TimesTenths(base, 3)
    ELSE IF t < 26 THEN TimesTenths(base, 6)
    ELSE IF t < 30 THEN TimesTenths(base, 8)
    ELSE IF t < 34 THEN TimesTenths(base, 10)
    ELSE TimesTenths(base, 13)

calculate_weather_adjustment(t, base) ==
    IF t < 18 THEN TimesTenths(base, 1)
    ELSE IF t < 22 THEN TimesTenths(base, 3)
    ELSE IF t < 26 THEN TimesTenths(base, 6)
    ELSE IF t < 30 THEN TimesTenths(base, 8)
    ELSE IF t < 35 THEN TimesTenths(base, 10)
    ELSE TimesTenths(base, 13)

----------------------------------------------------------------------------
(* calculate_daily_energy *)

DailyConsumption(base_energy, adjusted_fan_ac) ==
    [lighting |-> base_energy.lighting,
     fan_ac |-> adjusted_fan_ac,
     appliances |-> base_energy.appliances,
     water_heater |-> base_energy.water_heater,
     refrigerator |-> base_energy.refrigerator]

WithTotal(daily_consumption, total) ==
    [k \in DOMAIN daily_consumption \cup {"total"} |->
        IF k = "total" THEN total ELSE daily_consumption[k]]

\* the fan/AC value is left at its base value
calculate_daily_energy_unadjusted(ft, b, t) ==
    LET base_energy == calculate_base_energy(ft, b)
    IN  IF ~Truthy(base_energy) THEN None
        ELSE WithTotal(base_energy, SumValues(base_energy))

\* the total is summed over the base profile instead of the adjusted one
calculate_daily_energy_basesum(ft, b, t) ==
    LET base_energy == calculate_base_energy(ft, b)
    IN  IF ~Truthy(base_energy) THEN None
        ELSE LET adjusted_fan_ac ==
                     calculate_weather_adjustment(t, base_energy.fan_ac)
                 daily_consumption ==
                     DailyConsumption(base_energy, adjusted_fan_ac)
             IN  WithTotal(daily_consumption, SumValues(base_energy))

\* the weather factor is applied to the water heater as well
calculate_daily_energy_heater(ft, b, t) ==
    LET base_energy == calculate_base_energy(ft, b)
    IN  IF ~Truthy(base_energy) THEN None
        ELSE LET adjusted_fan_ac ==
                     calculate_weather_adjustment(t, base_energy.fan_ac)
                 daily_consumption ==
                     [DailyConsumption(base_energy, adjusted_fan_ac)
                        EXCEPT !.water_heater =
                          calculate_weather_adjustment(t,
                                                base_energy.water_heater)]
             IN  WithTotal(daily_consumption, SumValues(daily_consumption))

calculate_daily_energy(ft, b, t) ==
    LET base_energy == calculate_base_energy(ft, b)
    IN  IF ~Truthy(base_energy) THEN None
        ELSE LET adjusted_fan_ac ==
                     calculate_weather_adjustment(t, base_energy.fan_ac)
                 daily_consumption ==
                     DailyConsumption(base_energy, adjusted_fan_ac)
             IN  WithTotal(daily_consumption, SumValues(daily_consumption))

----------------------------------------------------------------------------
(* Inputs *)

\* options of the "Housing Type:" selectbox
HousingOptions == {"flat", "tenement"}

\* options of the "BHK Configuration:" selectbox
BhkOptions == {"1BHK", "2BHK", "3BHK"}

\* housing-type arguments of direct calls: the two known keys and others
HousingKeys == HousingOptions \cup {"villa"}

\* room-configuration arguments of direct calls
RoomKeys == BhkOptions \cup {"4BHK"}

\* bounds of the temperature slider
SliderMin == 10

SliderMax == 45

\* initial position of the temperature slider
SliderDefault == 25

\* slider positions in the order in which the bounds admit them
TempList == <<25, 35, 24, 17, 18, 45, 10, 30, 22, 26, 21, 29, 34>>

FirstTemps(n) ==
    {TempList[k] : k \in 1..(IF n < Len(TempList) THEN n ELSE Len(TempList))}

Temps == FirstTemps(NumTemps) \cap (SliderMin..SliderMax)

CallTemps == FirstTemps(NumCallTemps)

WeekTemps == FirstTemps(NumWeekTemps)

\* contents of the text inputs: empty, blank, and a padded entry
Texts == {<<>>, <<" ">>, <<" ", "a">>}

days ==
    <<"Monday", "Tuesday", "Wednesday", "Thursday", "Friday", "Saturday",
      "Sunday">>

\* the per-day consumption of the "Energy calculation methodology" text
MethodologyPerDay ==
    [flat |-> ("1BHK" :> 1280) @@ ("2BHK" :> 1720) @@ ("3BHK" :> 2220),
     tenement |-> ("1BHK" :> 1290) @@ ("2BHK" :> 1730) @@ ("3BHK" :> 2250)]

----------------------------------------------------------------------------
(* main: day loop *)

\* the boundary temperatures get the description of the lower band
WeatherDescLe(t) ==
    IF t <= 18 THEN "Very Cold"
    ELSE IF t <= 22 THEN "Cool"
    ELSE IF t <= 26 THEN "Comfortable"
    ELSE IF t <= 30 THEN "Warm"
    ELSE IF t <= 35 THEN "Hot"
    ELSE "Very Hot"

\* the weather description chosen from the temperature
WeatherDesc(t) ==
    IF t < 18 THEN "Very Cold"
    ELSE IF t < 22 THEN "Cool"
    ELSE IF t < 26 THEN "Comfortable"
    ELSE IF t < 30 THEN "Warm"
    ELSE IF t < 35 THEN "Hot"
    ELSE "Very Hot"

\* the row appended to weekly_data
Row(day, t, de) ==
    [Day |-> day, Temperature |-> t, Total_Energy |-> de.total,
     Lighting |-> de.lighting, Fan_AC |-> de.fan_ac,
     Appliances |-> de.appliances, Water_Heater |-> de.water_heater,
     Refrigerator |-> de.refrigerator]

----------------------------------------------------------------------------
(* main: weekly summary section *)

\* df['Total Energy']
TotalEnergyColumn(rows) == [k \in 1..Len(rows) |-> rows[k].Total_Energy]

RECURSIVE SeqSum(_)
\* Series.sum()
SeqSum(xs) == IF xs = <<>> THEN 0 ELSE Head(xs) + SeqSum(Tail(xs))

\* Series.mean(): the sum over the count, kept as a fraction
SeriesMeanWeek(xs) == [num |-> SeqSum(xs), den |-> Len(days)]

SeriesMean(xs) == [num |-> SeqSum(xs), den |-> Len(xs)]

RECURSIVE idxmax_last_from(_, _, _)
idxmax_last_from(xs, k, best) ==
    IF k > Len(xs) THEN best
    ELSE idxmax_last_from(xs, k + 1, IF xs[k] >= xs[best] THEN k ELSE best)

RECURSIVE idxmax_from(_, _, _)
\* scan for the first position holding the maximum
idxmax_from(xs, k, best) ==
    IF k > Len(xs) THEN best
    ELSE idxmax_from(xs, k + 1, IF xs[k] > xs[best] THEN k ELSE best)

idxmax_last(xs) == idxmax_last_from(xs, 2, 1) - 1

\* Series.idxmax(): the row label (0-based) of the first maximum
idxmax(xs) == idxmax_from(xs, 2, 1) - 1

\* nothing is rendered
NotRendered == [rendered |-> FALSE]

\* the four metrics; the bill is sum * 4.3 * 6, in thousandths of a rupee
Metrics(rows) ==
    LET col == TotalEnergyColumn(rows)
    IN  [rendered |-> TRUE,
         total_weekly_energy |-> SeqSum(col),
         average_daily_energy |-> SeriesMean(col),
         monthly_bill |-> SeqSum(col) * 43 * 6,
         highest_day |-> rows[idxmax(col) + 1].Day]

\* a summary of zeros in place of the guard
WeeklySummarySectionZero(rows) ==
    IF NonEmpty(rows) THEN Metrics(rows)
    ELSE [rendered |-> TRUE, total_weekly_energy |-> 0,
          average_daily_energy |-> [num |-> 0, den |-> 1],
          monthly_bill |-> 0, highest_day |-> days[1]]

\* if weekly_data: ... the summary section
WeeklySummarySection(rows) ==
    IF NonEmpty(rows) THEN Metrics(rows) ELSE NotRendered

----------------------------------------------------------------------------
(* A run of main *)

\* no call has been remembered
NoProbe == [fn |-> "none", args |-> <<>>, ret |-> None]

callIdle ==
    /\ fn = "none"
    /\ base_fan_ac = 0
    /\ ret = None
    /\ base_consumption = BaseConsumption
    /\ probe = NoProbe

mainIdle ==
    /\ name = <<>>
    /\ city = <<>>
    /\ area = <<>>
    /\ i = 0
    /\ weather_desc = ""
    /\ daily_energy = None
    /\ weekly_data = <<>>
    /\ summary = NotRendered

Init ==
    /\ pc = "start"
    /\ mainIdle
    /\ flat_tenement = "flat"
    /\ bhk = "1BHK"
    /\ temperature = SliderDefault
    /\ callIdle

\* the widgets are read and weekly_data is created
ReadWidgets ==
    /\ pc = "start"
    /\ name' \in Texts
    /\ city' \in Texts
    /\ area' \in Texts
    /\ flat_tenement' \in HousingOptions
    /\ bhk' \in BhkOptions
    /\ weekly_data' = <<>>
    /\ i' = 0
    /\ pc' = "loop"
    /\ UNCHANGED <<temperature, weather_desc, daily_energy, summary>>
    /\ UNCHANGED callVars

\* only the name is required before the energy is calculated
DayLoopNameOnly ==
    /\ pc = "loop"
    /\ i < Len(days)
    /\ \E t \in Temps :
          /\ temperature' = t
          /\ weather_desc' = WeatherDesc(t)
          /\ IF NonEmpty(strip(name))
             THEN LET de == calculate_daily_energy(flat_tenement, bhk, t)
                  IN  /\ daily_energy' = de
                      /\ weekly_data' =
                             IF Truthy(de)
                             THEN Append(weekly_data,
                                         Row(days[i + 1], t, de))
                             ELSE weekly_data
             ELSE UNCHANGED <<daily_energy, weekly_data>>
    /\ i' = i + 1
    /\ pc' = IF i + 1 = Len(days) THEN "summary" ELSE "loop"
    /\ UNCHANGED <<name, city, area, flat_tenement, bhk, summary>>
    /\ UNCHANGED callVars

\* one iteration of the loop over the day tabs
DayLoop ==
    /\ pc = "loop"
    /\ i < Len(days)
    /\ \E t \in Temps :
          /\ temperature' = t
          /\ weather_desc' = WeatherDesc(t)
          /\ IF NonEmpty(strip(name)) /\ NonEmpty(strip(city))
                /\ NonEmpty(strip(area))
             THEN LET de == calculate_daily_energy(flat_tenement, bhk, t)
                  IN  /\ daily_energy' = de
                      /\ weekly_data' =
                             IF Truthy(de)
                             THEN Append(weekly_data,
                                         Row(days[i + 1], t, de))
                             ELSE weekly_data
             ELSE UNCHANGED <<daily_energy, weekly_data>>
    /\ i' = i + 1
    /\ pc' = IF i + 1 = Len(days) THEN "summary" ELSE "loop"
    /\ UNCHANGED <<name, city, area, flat_tenement, bhk, summary>>
    /\ UNCHANGED callVars

\* the weekly summary section
WeeklySummary ==
    /\ pc = "summary"
    /\ summary' = WeeklySummarySection(weekly_data)
    /\ pc' = "done"
    /\ UNCHANGED <<name, city, area, flat_tenement, bhk, i, temperature,
                   weather_desc, daily_energy, weekly_data>>
    /\ UNCHANGED callVars

\* a widget change makes the script run again from the top
Rerun ==
    /\ pc = "done"
    /\ pc' = "start"
    /\ i' = 0
    /\ temperature' = SliderDefault
    /\ weather_desc' = ""
    /\ daily_energy' = None
    /\ weekly_data' = <<>>
    /\ summary' = NotRendered
    /\ UNCHANGED <<name, city, area, flat_tenement, bhk>>
    /\ UNCHANGED callVars

Next == ReadWidgets \/ DayLoop \/ WeeklySummary \/ Rerun

Spec == Init /\ [][Next]_vars

----------------------------------------------------------------------------
(* Direct calls of the three functions, one call per behaviour *)

\* base values given to calculate_weather_adjustment: multiples of 0.1 kWh
Bases == {10 * k : k \in 0..MaxBaseTenths}

CallRange == (0 - MaxCold)..MaxHot

InitFn ==
    /\ pc = "call"
    /\ mainIdle
    /\ ret = None
    /\ base_consumption = BaseConsumption
    /\ probe = NoProbe
    /\ \/ /\ fn = "base"
          /\ flat_tenement \in HousingKeys
          /\ bhk \in RoomKeys
          /\ temperature = SliderDefault
          /\ base_fan_ac = 0
       \/ /\ fn = "weather"
          /\ flat_tenement = "flat"
          /\ bhk = "1BHK"
          /\ temperature \in CallRange
          /\ base_fan_ac \in Bases
       \/ /\ fn = "daily"
          /\ flat_tenement \in HousingKeys
          /\ bhk \in RoomKeys
          /\ temperature \in CallRange
          /\ base_fan_ac = 0

ApplyBase ==
    /\ pc = "call"
    /\ fn = "base"
    /\ ret' = calculate_base_energy(flat_tenement, bhk)
    /\ pc' = "return"
    /\ UNCHANGED <<flat_tenement, bhk, temperature, fn, base_fan_ac,
                   base_consumption, probe>>
    /\ UNCHANGED mainVars

ApplyWeather ==
    /\ pc = "call"
    /\ fn = "weather"
    /\ ret' = calculate_weather_adjustment(temperature, base_fan_ac)
    /\ pc' = "return"
    /\ UNCHANGED <<flat_tenement, bhk, temperature, fn, base_fan_ac,
                   base_consumption, probe>>
    /\ UNCHANGED mainVars

ApplyDaily ==
    /\ pc = "call"
    /\ fn = "daily"
    /\ ret' = calculate_daily_energy(flat_tenement, bhk, temperature)
    /\ pc' = "return"
    /\ UNCHANGED <<flat_tenement, bhk, temperature, fn, base_fan_ac,
                   base_consumption, probe>>
    /\ UNCHANGED mainVars

NextFn == ApplyBase \/ ApplyWeather \/ ApplyDaily

SpecFn == InitFn /\ [][NextFn]_vars

----------------------------------------------------------------------------
(* The weekly summary section over lists of any length up to MaxRecords *)

\* the day label of the k-th row
DayLabel(k) == days[((k - 1) % Len(days)) + 1]

\* the rows built for the temperatures ts of consecutive days
RowsFor(ft, b, ts) ==
    [k \in 1..Len(ts) |->
        Row(DayLabel(k), ts[k], calculate_daily_energy(ft, b, ts[k]))]

InitWeek ==
    /\ pc = "summary"
    /\ name = <<"a">>
    /\ city = <<"a">>
    /\ area = <<"a">>
    /\ flat_tenement \in HousingOptions
    /\ bhk \in BhkOptions
    /\ \E n \in 0..MaxRecords :
          \E ts \in [1..n -> WeekTemps] :
              /\ weekly_data = RowsFor(flat_tenement, bhk, ts)
              /\ i = n
    /\ temperature = SliderDefault
    /\ weather_desc = ""
    /\ daily_energy = None
    /\ summary = NotRendered
    /\ callIdle

NextWeek == WeeklySummary

SpecWeek == InitWeek /\ [][NextWeek]_vars

----------------------------------------------------------------------------
(* Sequences of direct calls *)

\* base values passed to calculate_weather_adjustment in call sequences
CallBases ==
    {BaseConsumption[ft][b].fan_ac : ft \in HousingOptions, b \in BhkOptions}

InitCalls ==
    /\ pc = "calls"
    /\ mainIdle
    /\ flat_tenement = "flat"
    /\ bhk = "1BHK"
    /\ temperature = SliderDefault
    /\ callIdle

CallBase ==
    /\ pc = "calls"
    /\ \E ft \in HousingKeys, b \in RoomKeys :
          /\ flat_tenement' = ft
          /\ bhk' = b
          /\ base_consumption' = BaseConsumption
          /\ ret' = calculate_base_energy(ft, b)
    /\ fn' = "base"
    /\ UNCHANGED <<pc, temperature, base_fan_ac, probe>>
    /\ UNCHANGED mainVars

CallWeather ==
    /\ pc = "calls"
    /\ \E t \in CallTemps, base \in CallBases :
          /\ temperature' = t
          /\ base_fan_ac' = base
          /\ ret' = calculate_weather_adjustment(t, base)
    /\ fn' = "weather"
    /\ UNCHANGED <<pc, flat_tenement, bhk, base_consumption, probe>>
    /\ UNCHANGED mainVars

\* the table is kept between calls and the adjusted value is written into it
CallDailyShared ==
    /\ pc = "calls"
    /\ \E ft \in HousingKeys, b \in RoomKeys, t \in CallTemps :
          /\ flat_tenement' = ft
          /\ bhk' = b
          /\ temperature' = t
          /\ LET base_energy ==
                     Get(Get(base_consumption, ft, EmptyDict), b, EmptyDict)
             IN  IF ~Truthy(base_energy)
                 THEN ret' = None /\ UNCHANGED base_consumption
                 ELSE LET adjusted_fan_ac ==
                              calculate_weather_adjustment(t,
                                                      base_energy.fan_ac)
                          daily_consumption ==
                              DailyConsumption(base_energy, adjusted_fan_ac)
                      IN  /\ base_consumption' =
                                 [base_consumption EXCEPT
                                      ![ft][b].fan_ac = adjusted_fan_ac]
                          /\ ret' = WithTotal(daily_consumption,
                                              SumValues(daily_consumption))
    /\ fn' = "daily"
    /\ UNCHANGED <<pc, base_fan_ac, probe>>
    /\ UNCHANGED mainVars

CallDaily ==
    /\ pc = "calls"
    /\ \E ft \in HousingKeys, b \in RoomKeys, t \in CallTemps :
          /\ flat_tenement' = ft
          /\ bhk' = b
          /\ temperature' = t
          /\ base_consumption' = BaseConsumption
          /\ ret' = calculate_daily_energy(ft, b, t)
    /\ fn' = "daily"
    /\ UNCHANGED <<pc, base_fan_ac, probe>>
    /\ UNCHANGED mainVars

\* the arguments on which the result of a call depends
Arguments(f, ft, b, t, base) ==
    CASE f = "base" -> <<ft, b>>
      [] f = "weather" -> <<t, base>>
      [] f = "daily" -> <<ft, b, t>>
      [] OTHER -> <<>>

\* the caller keeps the arguments and the result of the call just made
Remember ==
    /\ pc = "calls"
    /\ fn # "none"
    /\ probe' = [fn |-> fn,
                 args |-> Arguments(fn, flat_tenement, bhk, temperature,
                                    base_fan_ac),
                 ret |-> ret]
    /\ UNCHANGED <<pc, flat_tenement, bhk, temperature, fn, base_fan_ac, ret,
                   base_consumption>>
    /\ UNCHANGED mainVars

NextCalls == CallBase \/ CallWeather \/ CallDaily \/ Remember

SpecCalls == InitCalls /\ [][NextCalls]_vars

----------------------------------------------------------------------------
(* The two temperature cascades applied to the same temperature *)

InitDesc ==
    /\ pc = "describe"
    /\ mainIdle
    /\ flat_tenement = "flat"
    /\ bhk = "1BHK"
    /\ temperature \in CallRange
    /\ fn = "none"
    /\ base_fan_ac \in CallBases
    /\ ret = None
    /\ base_consumption = BaseConsumption
    /\ probe = NoProbe

\* the description is chosen in main and the fan/AC value is adjusted for
\* the same temperature
DescribeAndAdjust ==
    /\ pc = "describe"
    /\ weather_desc' = WeatherDesc(temperature)
    /\ ret' = calculate_weather_adjustment(temperature, base_fan_ac)
    /\ fn' = "weather"
    /\ pc' = "described"
    /\ UNCHANGED <<name, city, area, flat_tenement, bhk, i, temperature,
                   daily_energy, weekly_data, summary, base_fan_ac,
                   base_consumption, probe>>

NextDesc == DescribeAndAdjust

SpecDesc == InitDesc /\ [][NextDesc]_vars

----------------------------------------------------------------------------
(* Properties of the three functions, checked under SpecFn *)

\* the six housing configurations of the table
ValidPair ==
    flat_tenement \in {"flat", "tenement"} /\ bhk \in {"1BHK", "2BHK", "3BHK"}

Returned(f) == pc = "return" /\ fn = f

\* the documented temperature bands, lower bound inclusive
InBand(k, t) ==
    CASE k = 1 -> t < 18
      [] k = 2 -> 18 <= t /\ t < 22
      [] k = 3 -> 22 <= t /\ t < 26
      [] k = 4 -> 26 <= t /\ t < 30
      [] k = 5 -> 30 <= t /\ t < 35
      [] k = 6 -> 35 <= t

\* the documented multipliers of the bands, in tenths
BandTenths == <<1, 3, 6, 8, 10, 13>>

\* the documented table row of the configuration (ft, b), in hundredths
TableRow(ft, b) ==
    CASE ft = "flat" /\ b = "1BHK" -> <<150, 400, 350, 200, 180>>
      [] ft = "flat" /\ b = "2BHK" -> <<220, 600, 450, 250, 200>>
      [] ft = "flat" /\ b = "3BHK" -> <<300, 800, 600, 300, 220>>
      [] ft = "tenement" /\ b = "1BHK" -> <<180, 500, 300, 150, 160>>
      [] ft = "tenement" /\ b = "2BHK" -> <<250, 700, 400, 200, 180>>
      [] ft = "tenement" /\ b = "3BHK" -> <<350, 900, 550, 250, 200>>

\* C1: for each of the six valid configurations calculate_base_energy
\* returns exactly the five values of the documented table row.
C1_BaseTableValues ==
    (Returned("base") /\ ValidPair) =>
        LET row == TableRow(flat_tenement, bhk)
        IN  /\ DOMAIN ret = {"lighting", "fan_ac", "appliances",
                             "water_heater", "refrigerator"}
            /\ ret.lighting = row[1]
            /\ ret.fan_ac = row[2]
            /\ ret.appliances = row[3]
            /\ ret.water_heater = row[4]
            /\ ret.refrigerator = row[5]

C1_Witness ==
    /\ Returned("base")
    /\ flat_tenement = "tenement"
    /\ bhk = "3BHK"
    /\ ret.lighting = 350
    /\ ret.refrigerator = 200

C3_InvalidPairAbsent ==
    (pc = "return" /\ ~ValidPair) =>
        /\ fn = "daily" => ret = None
        /\ fn = "base" => ret = EmptyDict

C3_Witness ==
    /\ Returned("daily")
    /\ flat_tenement = "flat"
    /\ bhk = "4BHK"
    /\ temperature = 40
    /\ ret = None

\* C4: for a valid configuration the fan_ac field of the breakdown is the
\* base fan_ac value times the weather multiplier of the temperature;
\* (flat, 2BHK, 25) gives fan_ac 3.6 and total 14.8, (tenement, 1BHK, 40)
\* gives fan_ac 6.5 and total 14.4.
C4_FanAcAdjusted ==
    (Returned("daily") /\ ValidPair) =>
        /\ \A k \in 1..6 :
              InBand(k, temperature) =>
                  ret.fan_ac * 10 =
                      calculate_base_energy(flat_tenement, bhk).fan_ac
                          * BandTenths[k]
        /\ (flat_tenement = "flat" /\ bhk = "2BHK" /\ temperature = 25) =>
              (ret.fan_ac = 360 /\ ret.total = 1480)
        /\ (flat_tenement = "tenement" /\ bhk = "1BHK" /\ temperature = 40) =>
              (ret.fan_ac = 650 /\ ret.total = 1440)

C4_Witness ==
    /\ Returned("daily")
    /\ flat_tenement = "flat"
    /\ bhk = "2BHK"
    /\ temperature = 25
    /\ ret.fan_ac = 360

\* C5: for a valid configuration the total field is the sum of the five
\* category fields of the same breakdown, the fan_ac field being the
\* adjusted one.
C5_TotalIsSum ==
    (Returned("daily") /\ ValidPair) =>
        ret.total = ret.lighting + ret.fan_ac + ret.appliances
                        + ret.water_heater + ret.refrigerator

C5_Witness ==
    /\ Returned("daily")
    /\ flat_tenement = "tenement"
    /\ bhk = "1BHK"
    /\ temperature = 40
    /\ ret.total = 1440

\* C6: for a fixed valid configuration the lighting, appliances, water_heater
\* and refrigerator fields are the base profile values at every temperature;
\* two temperatures can differ in fan_ac and total only.
C6_OtherCategoriesFixed ==
    (Returned("daily") /\ ValidPair) =>
        LET base == calculate_base_energy(flat_tenement, bhk)
        IN  /\ ret.lighting = base.lighting
            /\ ret.appliances = base.appliances
            /\ ret.water_heater = base.water_heater
            /\ ret.refrigerator = base.refrigerator
            /\ \A t2 \in CallRange :
                  LET other == calculate_daily_energy(flat_tenement, bhk, t2)
                  IN  \A f \in DOMAIN ret \ {"fan_ac", "total"} :
                          other[f] = ret[f]

C6_Witness ==
    /\ Returned("daily")
    /\ ValidPair
    /\ temperature = 10
    /\ \E t2 \in CallRange :
          LET other == calculate_daily_energy(flat_tenement, bhk, t2)
          IN  /\ other.fan_ac # ret.fan_ac
              /\ other.total # ret.total
              /\ other.lighting = ret.lighting

----------------------------------------------------------------------------
(* Properties of the weekly summary *)

\* the Total Energy values of the rows
Totals == {weekly_data[k].Total_Energy : k \in 1..Len(weekly_data)}

RECURSIVE TotalOfFirst(_)
\* the sum of the Total Energy values of the first n rows
TotalOfFirst(n) ==
    IF n = 0 THEN 0 ELSE weekly_data[n].Total_Energy + TotalOfFirst(n - 1)

C8_PeakDayFirstMaximum ==
    (pc = "done" /\ summary.rendered) =>
        /\ \E k \in 1..Len(weekly_data) :
              /\ summary.highest_day = weekly_data[k].Day
              /\ \A j \in 1..Len(weekly_data) :
                    weekly_data[j].Total_Energy <= weekly_data[k].Total_Energy
              /\ \A j \in 1..(k - 1) :
                    weekly_data[j].Total_Energy < weekly_data[k].Total_Energy
        /\ (Len(weekly_data) = 7 /\ Cardinality(Totals) = 1) =>
              summary.highest_day = "Monday"

C8_Witness ==
    /\ pc = "done"
    /\ summary.rendered
    /\ Len(weekly_data) = 7
    /\ weekly_data[1].Total_Energy < weekly_data[2].Total_Energy
    /\ weekly_data[2].Total_Energy = weekly_data[5].Total_Energy
    /\ \A j \in 1..7 :
          weekly_data[j].Total_Energy <= weekly_data[2].Total_Energy
    /\ summary.highest_day = "Tuesday"

\* C9: over any non-empty list of N rows the weekly total is the sum of the
\* rows' totals and the average is that total divided by N; seven rows of
\* total 14.8 give 103.6 and 14.8.
C9_TotalAndAverage ==
    (pc = "done" /\ Len(weekly_data) > 0) =>
        LET N == Len(weekly_data)
            avg == summary.average_daily_energy
        IN  /\ summary.rendered
            /\ summary.total_weekly_energy = TotalOfFirst(N)
            /\ avg.den > 0
            /\ avg.num * N = summary.total_weekly_energy * avg.den
            /\ (N = 7 /\ Totals = {1480}) =>
                  /\ summary.total_weekly_energy = 10360
                  /\ avg.num = 1480 * avg.den

C9_Witness ==
    /\ pc = "done"
    /\ Len(weekly_data) = 3
    /\ Cardinality(Totals) > 1
    /\ summary.rendered
    /\ summary.average_daily_energy.den = 3

----------------------------------------------------------------------------
(* Properties of call sequences, checked under SpecCalls *)

----------------------------------------------------------------------------
(* Further properties of calculate_daily_energy, checked under SpecFn *)

\* C11: for a fixed valid configuration, a temperature at least as high
\* gives a fan_ac value and a total at least as high.
C11_MonotonicInTemperature ==
    (Returned("daily") /\ ValidPair) =>
        \A t2 \in CallRange :
            temperature <= t2 =>
                LET other == calculate_daily_energy(flat_tenement, bhk, t2)
                IN  /\ ret.fan_ac <= other.fan_ac
                    /\ ret.total <= other.total

C11_Witness ==
    /\ Returned("daily")
    /\ ValidPair
    /\ temperature = 25
    /\ \E t2 \in CallRange :
          /\ temperature < t2
          /\ ret.fan_ac <
                 calculate_daily_energy(flat_tenement, bhk, t2).fan_ac

\* C12: for a valid configuration and any temperature, negative and extreme
\* ones included, the five category fields and the total are non-negative.
C12_NonNegative ==
    (Returned("daily") /\ ValidPair) =>
        \A f \in {"lighting", "fan_ac", "appliances", "water_heater",
                  "refrigerator", "total"} :
            f \in DOMAIN ret /\ ret[f] >= 0

C12_Witness ==
    /\ Returned("daily")
    /\ flat_tenement = "flat"
    /\ bhk = "1BHK"
    /\ temperature = 0 - 50
    /\ ret.fan_ac = 40
    /\ ret.total = 920

\* C13: the per-day consumption the methodology text gives for a
\* configuration is the sum of its five base values, which is the total
\* returned for a temperature from 30 up to, not including, 35.
C13_MethodologyFigures ==
    (Returned("daily") /\ ValidPair) =>
        LET base == calculate_base_energy(flat_tenement, bhk)
            documented == MethodologyPerDay[flat_tenement][bhk]
        IN  /\ documented = base.lighting + base.fan_ac + base.appliances
                                + base.water_heater + base.refrigerator
            /\ (30 <= temperature /\ temperature < 35) =>
                  ret.total = documented

C13_Witness ==
    /\ Returned("daily")
    /\ flat_tenement = "tenement"
    /\ bhk = "3BHK"
    /\ temperature = 34
    /\ ret.total = 2250

----------------------------------------------------------------------------
(* Properties of the day loop, checked under Spec *)

\* the text holds a character other than a space
NonBlank(s) == \E k \in 1..Len(s) : s[k] # " "

\* C14: after the day loop weekly_data holds 0 or 7 rows; it holds 7, one
\* per weekday from Monday to Sunday in order and each built from that day's
\* own temperature, exactly when name, city and area are non-blank and the
\* housing configuration is valid; the weekly summary is rendered for 7 rows
\* and skipped for none.
C14_WholeWeekOrNothing ==
    /\ (pc \in {"summary", "done"}) =>
          /\ Len(weekly_data) \in {0, 7}
          /\ Len(weekly_data) = 7 <=>
                (NonBlank(name) /\ NonBlank(city) /\ NonBlank(area)
                    /\ ValidPair)
          /\ \A k \in 1..Len(weekly_data) :
                /\ weekly_data[k].Day = days[k]
                /\ weekly_data[k].Temperature \in SliderMin..SliderMax
                /\ weekly_data[k] =
                       Row(days[k], weekly_data[k].Temperature,
                           calculate_daily_energy(flat_tenement, bhk,
                                            weekly_data[k].Temperature))
    /\ (pc \in {"loop", "summary"} /\ Len(weekly_data) > 0) =>
          /\ Len(weekly_data) = i
          /\ weekly_data[i].Temperature = temperature
    /\ (pc = "done") => (summary.rendered <=> Len(weekly_data) = 7)

C14_Witness ==
    /\ pc = "done"
    /\ Len(weekly_data) = 7
    /\ weekly_data[1].Temperature # weekly_data[2].Temperature
    /\ weekly_data[7].Day = "Sunday"
    /\ weekly_data[7].Temperature = temperature
    /\ summary.rendered

----------------------------------------------------------------------------
(* Agreement of the two temperature cascades, checked under SpecDesc *)

\* the descriptions of the six bands, coldest first
BandDescriptions ==
    <<"Very Cold", "Cool", "Comfortable", "Warm", "Hot", "Very Hot">>

\* C15: for every temperature the weather description chosen in main names
\* the band whose multiplier calculate_weather_adjustment applies.
C15_DescriptionMatchesMultiplier ==
    (pc = "described") =>
        \A k \in 1..6 :
            (weather_desc = BandDescriptions[k]) <=>
                (ret * 10 = base_fan_ac * BandTenths[k])

C15_Witness ==
    /\ pc = "described"
    /\ temperature = 30
    /\ weather_desc = "Hot"
    /\ base_fan_ac = 700
    /\ ret = 700

====
